---- MODULE Spec2Model ----
\* Model of src/src/null-safety.ts: the NullSafety<TSource> wrapper.
\* A NullSafety instance is an object with one private field, `source`.
\* The model keeps every instance constructed so far in `heap` (instance n is
\* heap[n]) and the most recent call, with the getter invocations it made and
\* the value it returned, in `last`.  `origin` is the history of construction:
\* origin[n] tells how instance n was built.
EXTENDS Integers, Sequences, FiniteSets, TLC

VARIABLES heap, origin, last

vars == <<heap, origin, last>>

\* Number of NullSafety instances constructed in one run.
MaxContainers == 3

-----------------------------------------------------------------------------
\* JavaScript values.  A value is a record tagged with its typeof-like type.

null == [type |-> "null"]

undefined == [type |-> "undefined"]

zero == [type |-> "number", val |-> 0]

emptyString == [type |-> "string", val |-> ""]

false == [type |-> "boolean", val |-> FALSE]

fallbackString == [type |-> "string", val |-> "fallback"]

\* The object literal {a: null}.
objANull == [type |-> "object", a |-> null]

\* TSource | null | undefined
Values == {null, undefined, zero, emptyString, false, fallbackString, objANull}

\* The two values outside TSource in `TSource | null | undefined`.
Absent == {null, undefined}

Present == Values \ Absent

\* A reference to the NullSafety instance heap[n].
Ref(n) == [type |-> "NullSafety", ref |-> n]

-----------------------------------------------------------------------------
\* Getter<TSource, TResult>: a function from source values to result values.
\* Getters passed to `next` take a TSource; getters passed to `nextWithAny`
\* take TSource | null | undefined.

\* o => o.a
getA == [o \in Present |-> IF o.type = "object" THEN o.a ELSE undefined]

\* o => o.missingField
getMissingField == [o \in Present |-> undefined]

\* o => o
getSelf == [o \in Values |-> o]

\* o => null
getNull == [o \in Values |-> null]

\* o => (o === null || o === undefined) ? 0 : o
getOrZero == [o \in Values |-> IF o = null \/ o = undefined THEN zero ELSE o]

Getters == {getA, getMissingField, getSelf, getNull, getOrZero}

AnyGetters == {g \in Getters : DOMAIN g = Values}

\* altResult?: TResult.  `undefined` is an omitted argument.
AltResults == {undefined, null, zero, fallbackString}

-----------------------------------------------------------------------------
\* The bodies of the methods.

\* Values that convert to false in a condition.
Falsy == {undefined, null, zero, emptyString, false}

\* Variant: the test written as `!x`.
IsNullish_Falsy(x) == x \in Falsy

\* The test `x === undefined || x === null`.
IsNullish(x) == x = undefined \/ x = null

\* Variant: the constructor stores `source || undefined`-style normalised null.
Construct_Normalised(source) ==
    [source |-> IF source = null THEN undefined ELSE source]

\* new NullSafety(source): the constructor stores its argument.
Construct(source) == [source |-> source]

\* Variant: a nullish source is replaced by undefined instead of carried.
NextGet_DropMarker(source, getter) ==
    IF IsNullish(source)
    THEN [result |-> undefined, calls |-> <<>>]
    ELSE [result |-> getter[source], calls |-> <<source>>]

\* Variant: the getter is invoked but the source is kept as the result.
NextGet_KeepSource(source, getter) ==
    IF IsNullish(source)
    THEN [result |-> source, calls |-> <<>>]
    ELSE [result |-> source, calls |-> <<source>>]

\* next, first statement: the getter is applied only to a non-nullish source.
\* `calls` lists the arguments of the getter invocations made.
NextGet(source, getter) ==
    IF IsNullish(source)
    THEN [result |-> source, calls |-> <<>>]
    ELSE [result |-> getter[source], calls |-> <<source>>]

\* Variant: altResult tested for truthiness instead of `!== undefined`.
NextAlt_Truthy(result, altResult) ==
    IF IsNullish(result) /\ altResult \notin Falsy THEN altResult ELSE result

\* Variant: only an undefined result is replaced.
NextAlt_OnlyUndefined(result, altResult) ==
    IF result = undefined /\ altResult # undefined THEN altResult ELSE result

\* next, second statement: substitute altResult.
NextAlt(result, altResult) ==
    IF IsNullish(result) /\ altResult # undefined THEN altResult ELSE result

\* Variant: the receiver's own field is assigned before wrapping.
NextWrap_InPlace(h, self, result) ==
    Append([h EXCEPT ![self] = Construct(result)], Construct(result))

\* next, return statement: wrap the result in a new instance.
NextWrap(h, self, result) == Append(h, Construct(result))

\* Variant: nextWithAny short-circuits like next.
NextWithAnyGet_ShortCircuit(source, getter) ==
    IF IsNullish(source)
    THEN [result |-> source, calls |-> <<>>]
    ELSE [result |-> getter[source], calls |-> <<source>>]

\* nextWithAny, first statement: the getter is always applied.
NextWithAnyGet(source, getter) ==
    [result |-> getter[source], calls |-> <<source>>]

\* Variant: a supplied altResult replaces the result without the nullish test.
NextWithAnyAlt_Always(result, altResult) ==
    IF altResult # undefined THEN altResult ELSE result

\* nextWithAny, second statement.
NextWithAnyAlt(result, altResult) ==
    IF IsNullish(result) /\ altResult # undefined THEN altResult ELSE result

\* nextWithAny, return statement.
NextWithAnyWrap(h, self, result) == Append(h, Construct(result))

\* result()
ResultOf(source) == source

\* Variant: only null is replaced.
ResultAltyOf_NullOnly(source, altResult) ==
    IF source # null THEN source ELSE altResult

\* resultAlty(altResult)
ResultAltyOf(source, altResult) ==
    IF source # null /\ source # undefined THEN source ELSE altResult

-----------------------------------------------------------------------------
\* State machine.  A run is the evaluation of one expression that begins with
\* NullSafety.start(...); every later call is made on an instance built so far.

\* A call: the method, the receiver (`self`, with the value it held on entry),
\* the arguments, the getter invocations made, and the value returned.
Call(op, self, arg, held, getter, altResult, calls, ret) ==
    [op |-> op, self |-> self, arg |-> arg, held |-> held, getter |-> getter,
     altResult |-> altResult, calls |-> calls, ret |-> ret]

NoCall == Call("none", 0, undefined, undefined, "none", undefined, <<>>, undefined)

\* What `origin` keeps of the construction of an instance: the receiver of the
\* call that built it (0 for start), the constructor argument `made`, the
\* expression it came from (`via`: the argument of start, the receiver's own
\* source carried by next, a getter's result, or altResult) and the number of
\* getter invocations the call made.
Origin(self, via, invoked, made) ==
    [self |-> self, via |-> via, invoked |-> invoked, made |-> made]

\* The expression a chaining call took its result from.
Via(got, result) ==
    IF result # got.result THEN "altResult"
    ELSE IF got.calls = <<>> THEN "source" ELSE "getter"

Init ==
    /\ heap = <<>>
    /\ origin = <<>>
    /\ last = NoCall

\* NullSafety.start(source)
Start(source) ==
    /\ Len(heap) = 0
    /\ heap' = Append(heap, Construct(source))
    /\ origin' = Append(origin, Origin(0, "start", 0, source))
    /\ last' = Call("start", 0, source, undefined, "none", undefined, <<>>,
                    Ref(Len(heap) + 1))

\* heap[self].next(getter, altResult)
Next_(self, getter, altResult) ==
    /\ Len(heap) < MaxContainers
    /\ LET got == NextGet(heap[self].source, getter)
           result == NextAlt(got.result, altResult)
       IN /\ heap' = NextWrap(heap, self, result)
          /\ origin' = Append(origin, Origin(self, Via(got, result), Len(got.calls), result))
          /\ last' = Call("next", self, undefined, heap[self].source, getter,
                          altResult, got.calls, Ref(Len(heap) + 1))

\* heap[self].nextWithAny(getter, altResult)
NextWithAny(self, getter, altResult) ==
    /\ Len(heap) < MaxContainers
    /\ LET got == NextWithAnyGet(heap[self].source, getter)
           result == NextWithAnyAlt(got.result, altResult)
       IN /\ heap' = NextWithAnyWrap(heap, self, result)
          /\ origin' = Append(origin, Origin(self, Via(got, result), Len(got.calls), result))
          /\ last' = Call("nextWithAny", self, undefined, heap[self].source,
                          getter, altResult, got.calls, Ref(Len(heap) + 1))

\* heap[self].result()
Result(self) ==
    /\ heap' = heap
    /\ origin' = origin
    /\ last' = Call("result", self, undefined, heap[self].source, "none",
                    undefined, <<>>, ResultOf(heap[self].source))

\* heap[self].resultAlty(altResult)
ResultAlty(self, altResult) ==
    /\ heap' = heap
    /\ origin' = origin
    /\ last' = Call("resultAlty", self, undefined, heap[self].source, "none",
                    altResult, <<>>, ResultAltyOf(heap[self].source, altResult))

Next ==
    \/ \E source \in Values : Start(source)
    \/ \E self \in DOMAIN heap, getter \in Getters, altResult \in AltResults :
          Next_(self, getter, altResult)
    \/ \E self \in DOMAIN heap, getter \in AnyGetters, altResult \in AltResults :
          NextWithAny(self, getter, altResult)
    \/ \E self \in DOMAIN heap : Result(self)
    \/ \E self \in DOMAIN heap, altResult \in AltResults : ResultAlty(self, altResult)

Spec == Init /\ [][Next]_vars

TypeOK ==
    /\ Len(heap) <= MaxContainers
    /\ DOMAIN origin = DOMAIN heap
    /\ \A i \in DOMAIN heap : heap[i].source \in Values

-----------------------------------------------------------------------------
\* Properties.

\* The value held by the instance the last call returned.
NewSource == heap[last.ret.ref].source

\* C1: next(getter) without altResult on an instance holding null or undefined
\* does not invoke the getter, and the new instance holds the same marker.
C1_AbsentShortCircuit ==
    (last.op = "next" /\ last.held \in Absent /\ last.altResult = undefined)
        => /\ last.calls = <<>>
           /\ NewSource = last.held

C1_Witness ==
    /\ last.op = "next"
    /\ last.held = null
    /\ last.altResult = undefined
    /\ last.calls = <<>>
    /\ NewSource = null

\* C2: next(getter) without altResult on an instance holding a present value v
\* invokes the getter exactly once, on v, and the new instance holds getter(v),
\* present or absent.
C2_PresentApplies ==
    (last.op = "next" /\ last.held \in Present /\ last.altResult = undefined)
        => /\ last.calls = <<last.held>>
           /\ NewSource = last.getter[last.held]

C2_Witness ==
    /\ last.op = "next"
    /\ last.held = objANull
    /\ last.getter = getA
    /\ last.altResult = undefined
    /\ last.calls = <<objANull>>
    /\ NewSource = null

\* C3: next(getter, altResult) with an altResult supplied yields altResult when
\* the computed next value (getter's result on a present value, or the carried
\* marker) is absent, and getter's result when that result is present.
C3_FallbackSubstitution ==
    (last.op = "next" /\ last.altResult # undefined)
        => LET computed == IF last.held \in Absent THEN last.held
                           ELSE last.getter[last.held]
           IN NewSource = IF computed \in Absent THEN last.altResult ELSE computed

C3_Witness ==
    /\ last.op = "next"
    /\ last.held = emptyString
    /\ last.getter = getMissingField
    /\ last.altResult = zero
    /\ NewSource = zero

\* C4: nextWithAny invokes the getter exactly once on every instance and passes
\* it the held value unchanged, null and undefined included.
C4_AlwaysInvoked ==
    last.op = "nextWithAny" => last.calls = <<last.held>>

C4_Witness ==
    /\ last.op = "nextWithAny"
    /\ last.held = null
    /\ last.calls = <<null>>

C6_ResultAlty ==
    (last.op = "resultAlty" /\ last.altResult \in Present)
        => /\ last.ret = IF last.held \in Present THEN last.held ELSE last.altResult
           /\ last.ret \notin Absent

C6_Witness ==
    /\ last.op = "resultAlty"
    /\ last.held = undefined
    /\ last.altResult = fallbackString
    /\ last.ret = fallbackString

\* C7: start(v).result() is v, for present v and for null and undefined alike.
C7_StartResult ==
    (last.op = "result" /\ origin[last.self].via = "start")
        => last.ret = origin[last.self].made

C7_Witness ==
    /\ last.op = "result"
    /\ origin[last.self].via = "start"
    /\ origin[last.self].made = null
    /\ last.ret = null

\* C8: no call changes the value held by an existing instance: every instance
\* always holds the value it was constructed with, result() returns it, and
\* each next / nextWithAny returns an instance that did not exist before.
C8_Held ==
    /\ \A i \in DOMAIN heap : heap[i].source = origin[i].made
    /\ last.op = "result" => last.ret = origin[last.self].made

C8_Step ==
    /\ \A i \in DOMAIN heap : i \in DOMAIN heap' /\ heap'[i] = heap[i]
    /\ last'.op \in {"next", "nextWithAny"}
          => /\ last'.ret.ref \notin DOMAIN heap
             /\ last'.ret.ref \in DOMAIN heap'
             /\ last'.ret.ref # last'.self

C8_Immutable == []C8_Held /\ [][C8_Step]_vars

C8_Witness ==
    /\ last.op = "result"
    /\ last.self = 1
    /\ last.ret = undefined
    /\ \E j \in DOMAIN heap :
          /\ origin[j].self = 1 /\ origin[j].via = "altResult"
          /\ origin[j].invoked = 0 /\ heap[j].source = fallbackString
    /\ \E j \in DOMAIN heap :
          /\ origin[j].self = 1 /\ origin[j].via = "getter"
          /\ origin[j].invoked = 1 /\ heap[j].source = zero

\* The first instance of the run of short-circuited next calls that carried
\* an absent value down to instance j (j itself when it was not carried).
RECURSIVE CarryRoot(_)
CarryRoot(j) ==
    IF origin[j].via = "source" THEN CarryRoot(origin[j].self) ELSE j

\* Instance k was built from an absent instance by a call that invoked no
\* getter and took altResult, and it holds a present value.
ReEntered(k) ==
    /\ origin[k].via = "altResult"
    /\ origin[k].invoked = 0
    /\ origin[origin[k].self].made \in Absent
    /\ heap[k].source \in Present

\* C9: in a chain of next calls, once an instance is absent every following
\* next without altResult invokes no getter and carries the same marker; a
\* next with a (present) altResult invokes no getter and yields an instance
\* holding that altResult; a next on that instance invokes its getter on the
\* altResult value.
C9_ChainShortCircuit ==
    /\ \A j \in DOMAIN heap :
          origin[j].via = "source"
             => /\ origin[j].invoked = 0
                /\ heap[CarryRoot(j)].source \in Absent
                /\ heap[j].source = heap[CarryRoot(j)].source
    /\ (last.op = "next" /\ last.held \in Absent)
          => /\ last.calls = <<>>
             /\ last.altResult = undefined
                   => NewSource = last.held /\ origin[last.ret.ref].via = "source"
             /\ last.altResult \in Present
                   => NewSource = last.altResult /\ ReEntered(last.ret.ref)
    /\ (last.op = "next" /\ ReEntered(last.self))
          => last.calls = <<last.held>>

C9_Witness ==
    /\ last.op = "next"
    /\ ReEntered(last.self)
    /\ origin[last.self].self = 1
    /\ heap[1].source = null
    /\ last.held = fallbackString
    /\ last.getter = getSelf
    /\ last.calls = <<fallbackString>>
    /\ NewSource = fallbackString

\* The present values that convert to false.
FalsyPresent == {zero, emptyString, false}

====
